---- MODULE Spec2Model ----
(***************************************************************************)
(* Model of agen.py: a Lichess bot made of a main thread (login, start of  *)
(* the auto-challenger, inbound event loop), the ChallengeManager thread,  *)
(* one GameHandler thread per game, and the process-wide BOT_MEMORY.       *)
(*                                                                         *)
(* Four specifications are given:                                          *)
(*   Spec         the program as `python agen.py` runs it, from line 12;   *)
(*   SpecMatch    ChallengeManager.run with BOT_MEMORY drawn from the      *)
(*                values GameHandler can leave in it;                      *)
(*   SpecSession  GameHandler threads constructed as GameHandler(game_id)  *)
(*                over arbitrary per-game event streams;                   *)
(*   SpecRouter   the inbound event loop of lines 397-423.                 *)
(*                                                                         *)
(* Chess positions are abstracted to the two facts the handler reads from  *)
(* the rebuilt board: the side to move and the way the game ended.         *)
(***************************************************************************)
EXTENDS Integers, Sequences, FiniteSets, TLC

\* ------------------------------------------------------------------ bounds
MaxOutstanding == 1
MaxOngoing == 1
MaxEvents == 3
MaxInbox == 2

\* --------------------------------------------------------------- constants
None == "None"
Me == "Surendhan"
BotNames == {"BotA", "BotB", "BotC"}
DefaultOpponent == "AI/Anonymous"
HardcodedId == "surendhan"
DrawThreshold == 100
MateScore == 10000
BusySleep == 60
NormalSleep == 45

\* str.lower() on the user names that occur
Lower(n) ==
  CASE n = "Surendhan" -> "surendhan"
    [] n = "BotA" -> "bota"
    [] n = "BotB" -> "botb"
    [] n = "BotC" -> "botc"
    [] n = "AI/Anonymous" -> "ai/anonymous"
    [] OTHER -> n

VARIABLES
  token,        \* LICHESS_TOKEN is set in the environment
  mainPc,       \* position of the main thread
  me,           \* the local `me` of __main__ (None while unbound)
  alive,        \* the process is running
  cm,           \* ChallengeManager thread: pc, valid_targets, target_name, nap
  cmOut,        \* the platform call the ChallengeManager made in its last step
  BOT_MEMORY,   \* the module-level dictionary
  ongoing,      \* platform: games of this account in progress
  outstanding,  \* platform: challenges created by this account, unanswered
  gh,           \* GameHandler threads, by game id
  ghOut,        \* what the last GameHandler step called and sent
  router,       \* the inbound event loop: pc and handlers started
  inbox,        \* platform: events waiting on the incoming-events stream
  routerOut,    \* what the last event-loop step called
  oracle        \* a decide_move call: its inputs and what it returned

vars == <<token, mainPc, me, alive, cm, cmOut, BOT_MEMORY, ongoing,
          outstanding, gh, ghOut, router, inbox, routerOut, oracle>>

mainVars == <<token, mainPc, me, alive>>
platformVars == <<ongoing, outstanding>>
sessionVars == <<gh, ghOut>>
routerVars == <<router, inbox, routerOut>>

\* ------------------------------------------------------------- BOT_MEMORY
EmptyMemory ==
  [last_opponent |-> None, last_result |-> None, conquered_bots |-> {}]

OpponentNames == BotNames \cup {DefaultOpponent}

\* ------------------------------------------------- ChallengeManager (272-371)
CmIdle == [pc |-> "unstarted", valid_targets |-> {}, target_name |-> None,
           nap |-> 0]
\* cmOut.ongoing is the platform's count of games in progress at the moment
\* of the call, cmOut.online the valid_targets the target was chosen from,
\* cmOut.error whether the platform call of the step raised
NoCall == [call |-> "none", target |-> None, ongoing |-> 0, online |-> {},
           error |-> FALSE]

CmSleep(seconds) ==
  [pc |-> "sleep", valid_targets |-> {}, target_name |-> None, nap |-> seconds]

\* lines 369-371: the except of the loop body, then the 60 s sleep
on_error_mut(seconds) == [CmSleep(seconds) EXCEPT !.pc = "exited"]
on_error(seconds) == CmSleep(seconds)

\* lines 295-298
valid_targets_mut(online_bots, my_username) == online_bots
valid_targets(online_bots, my_username) ==
  {bot \in online_bots : Lower(bot) # Lower(my_username)}

\* lines 308-317: the name found by the revenge search, or None
revenge_target_mut(mem, valid) ==
  IF mem.last_result = "loss" /\ mem.last_opponent # None
       /\ mem.last_opponent \notin mem.conquered_bots
  THEN LET found == {bot \in valid : Lower(bot) = Lower(mem.last_opponent)}
       IN IF found = {} THEN None ELSE CHOOSE bot \in found : TRUE
  ELSE None
revenge_target(mem, valid) ==
  IF mem.last_result = "loss" /\ mem.last_opponent # None
  THEN LET found == {bot \in valid : Lower(bot) = Lower(mem.last_opponent)}
       IN IF found = {} THEN None ELSE CHOOSE bot \in found : TRUE
  ELSE None

\* lines 322-325
fresh_targets(mem, valid) == {b \in valid : b \notin mem.conquered_bots}

\* line 331
very_fresh(mem, valid) ==
  {b \in fresh_targets(mem, valid) : Lower(b) # Lower(mem.last_opponent)}

\* lines 319-357: the list random.choice draws the target from
target_pool_mut(mem, valid) ==
  IF fresh_targets(mem, valid) # {} THEN fresh_targets(mem, valid) ELSE valid
target_pool(mem, valid) ==
  IF fresh_targets(mem, valid) # {}
  THEN IF mem.last_opponent # None
       THEN IF very_fresh(mem, valid) # {}
            THEN very_fresh(mem, valid)
            ELSE fresh_targets(mem, valid)
       ELSE fresh_targets(mem, valid)
  ELSE valid

\* lines 282-287, and 369-371 when the query raises
CM_CheckBusy ==
  /\ alive /\ cm.pc = "check"
  /\ \E ok \in BOOLEAN :
       /\ cm' = IF ~ok THEN on_error(BusySleep)
                ELSE IF ongoing > 0 THEN CmSleep(BusySleep)
                ELSE [cm EXCEPT !.pc = "seek"]
       /\ cmOut' = [NoCall EXCEPT !.error = ~ok]
  /\ UNCHANGED <<oracle, mainVars, BOT_MEMORY, platformVars, sessionVars, routerVars>>

\* lines 291-303, and 369-371 when the query raises
CM_Seek ==
  /\ alive /\ cm.pc = "seek"
  /\ \E ok \in BOOLEAN, online_bots \in SUBSET (BotNames \cup {Me}) :
       LET valid == valid_targets(online_bots, me)
       IN /\ cm' = IF ~ok THEN on_error(BusySleep)
                   ELSE IF valid = {} THEN CmSleep(BusySleep)
                   ELSE [cm EXCEPT !.pc = "revenge", !.valid_targets = valid]
          /\ cmOut' = [NoCall EXCEPT !.error = ~ok]
  /\ UNCHANGED <<oracle, mainVars, BOT_MEMORY, platformVars, sessionVars, routerVars>>

\* lines 305-317
CM_Revenge ==
  /\ alive /\ cm.pc = "revenge"
  /\ cm' = [cm EXCEPT !.pc = "fresh",
                      !.target_name = revenge_target(BOT_MEMORY, cm.valid_targets)]
  /\ cmOut' = NoCall
  /\ UNCHANGED <<oracle, mainVars, BOT_MEMORY, platformVars, sessionVars, routerVars>>

\* lines 319-357
CM_Fresh ==
  /\ alive /\ cm.pc = "fresh"
  /\ IF cm.target_name = None
     THEN \E target \in target_pool(BOT_MEMORY, cm.valid_targets) :
            cm' = [cm EXCEPT !.pc = "create", !.target_name = target]
     ELSE cm' = [cm EXCEPT !.pc = "create"]
  /\ cmOut' = NoCall
  /\ UNCHANGED <<oracle, mainVars, BOT_MEMORY, platformVars, sessionVars, routerVars>>

\* lines 359-367: client.challenges.create, then the 45 s sleep
CM_Create ==
  /\ alive /\ cm.pc = "create"
  /\ IF cm.target_name # None
     THEN \E ok \in BOOLEAN :
            /\ cmOut' = [call |-> "createChallenge", target |-> cm.target_name,
                         ongoing |-> ongoing, online |-> cm.valid_targets,
                         error |-> ~ok]
            /\ outstanding' = IF ok /\ outstanding < MaxOutstanding
                              THEN outstanding + 1 ELSE outstanding
     ELSE /\ cmOut' = NoCall
          /\ UNCHANGED outstanding
  /\ cm' = CmSleep(NormalSleep)
  /\ UNCHANGED <<oracle, mainVars, BOT_MEMORY, ongoing, sessionVars, routerVars>>

\* time.sleep returns: lines 286, 302, 367, 371; cmOut keeps the last call
CM_Wake ==
  /\ alive /\ cm.pc = "sleep"
  /\ cm' = [cm EXCEPT !.pc = "check", !.nap = 0]
  /\ UNCHANGED cmOut
  /\ UNCHANGED <<oracle, mainVars, BOT_MEMORY, platformVars, sessionVars, routerVars>>

ChallengeManagerStep ==
  \/ CM_CheckBusy \/ CM_Seek \/ CM_Revenge \/ CM_Fresh \/ CM_Create \/ CM_Wake

\* ------------------------------------------------------------ the platform
\* an opponent accepts a challenge this account created: the game starts
ChallengeAccepted ==
  /\ alive /\ outstanding > 0 /\ ongoing < MaxOngoing
  /\ outstanding' = outstanding - 1
  /\ ongoing' = ongoing + 1
  /\ UNCHANGED <<oracle, mainVars, cm, cmOut, BOT_MEMORY, sessionVars, routerVars>>

\* an opponent declines it, or it expires
ChallengeDeclined ==
  /\ alive /\ outstanding > 0
  /\ outstanding' = outstanding - 1
  /\ UNCHANGED <<oracle, mainVars, cm, cmOut, BOT_MEMORY, ongoing, sessionVars, routerVars>>

\* a game of this account ends on the platform
GameFinished ==
  /\ alive /\ ongoing > 0
  /\ ongoing' = ongoing - 1
  /\ UNCHANGED <<oracle, mainVars, cm, cmOut, BOT_MEMORY, outstanding, sessionVars, routerVars>>

PlatformStep == ChallengeAccepted \/ ChallengeDeclined \/ GameFinished

\* ------------------------------------------------- the main thread (12-397)
Die == /\ mainPc' = "dead" /\ alive' = FALSE

\* lines 12-19
MainSetup ==
  /\ alive /\ mainPc = "setup"
  /\ IF token THEN mainPc' = "login" /\ alive' = TRUE ELSE Die
  /\ UNCHANGED <<oracle, token, me, cm, cmOut, BOT_MEMORY, platformVars, sessionVars,
                 routerVars>>

\* lines 378-382
MainLogin ==
  /\ alive /\ mainPc = "login"
  /\ \E ok \in BOOLEAN : me' = IF ok THEN Me ELSE None
  /\ mainPc' = "startChallenger"
  /\ UNCHANGED <<oracle, token, alive, cm, cmOut, BOT_MEMORY, platformVars, sessionVars,
                 routerVars>>

\* lines 385-387
MainStartChallenger ==
  /\ alive /\ mainPc = "startChallenger"
  /\ cm' = IF me # None THEN [cm EXCEPT !.pc = "check"] ELSE cm
  /\ mainPc' = "banner"
  /\ UNCHANGED <<oracle, token, me, alive, cmOut, BOT_MEMORY, platformVars, sessionVars,
                 routerVars>>

\* lines 390-391: me['username'] raises NameError when the login failed
MainBanner ==
  /\ alive /\ mainPc = "banner"
  /\ IF me # None THEN mainPc' = "legacyThread" /\ alive' = TRUE ELSE Die
  /\ UNCHANGED <<oracle, token, me, cm, cmOut, BOT_MEMORY, platformVars, sessionVars,
                 routerVars>>

\* line 394: the name auto_challenger is bound nowhere in the module, so
\* evaluating it raises NameError outside any try; the ChallengeManager is a
\* daemon thread (line 276) and ends with the main thread
MainLegacyThread ==
  /\ alive /\ mainPc = "legacyThread"
  /\ Die
  /\ UNCHANGED <<oracle, token, me, cm, cmOut, BOT_MEMORY, platformVars, sessionVars,
                 routerVars>>

MainStep ==
  \/ MainSetup \/ MainLogin \/ MainStartChallenger \/ MainBanner
  \/ MainLegacyThread

\* ------------------------------------------------ StockfishBrain (73-130)
EngineStates == {"loaded", "none"}
EvalValues == {DrawThreshold - 1, DrawThreshold}
\* what Stockfish.get_evaluation hands back, or the exception it raises
RawEvals ==
  {[type |-> "cp", value |-> v] : v \in EvalValues}
    \cup {[type |-> "mate", value |-> v] : v \in {-2, 2}}
    \cup {[type |-> "error", value |-> 0]}

NoEval == [type |-> "error", value |-> 0]

\* lines 115-130
get_evaluation(engine, raw) ==
  IF engine = "none" THEN 0
  ELSE IF raw.type = "error" THEN 0
  ELSE IF raw.type = "mate"
       THEN IF raw.value > 0 THEN MateScore ELSE -MateScore
  ELSE raw.value

\* strings in UCI notation that chess.Move.from_uci parses
UciMoves == {"e2e4", "d2d4", "g1f3"}
\* list(board.legal_moves) of the positions asked about
LegalSets == SUBSET UciMoves
\* lines 101-104: set_fen_position or get_best_move_time raises, or
\* get_best_move_time returns None, or a string
EngineReplies ==
  {[kind |-> "raise", text |-> ""], [kind |-> "none", text |-> ""]}
    \cup {[kind |-> "text", text |-> t] : t \in UciMoves \cup {"", "bestmove??"}}

Raised(what) == [kind |-> "raise", move |-> what]
Returned(m) == [kind |-> "move", move |-> m]

\* chess.Move.from_uci, line 108: the move named by the string, whether or not
\* it is legal in the position, or ValueError
from_uci(text) ==
  IF text \in UciMoves THEN Returned(text) ELSE Raised("ValueError")

\* random.choice(list(board.legal_moves)), lines 98, 111, 114
random_legal(legal) ==
  IF legal = {} THEN {Raised("IndexError")} ELSE {Returned(m) : m \in legal}

\* lines 112-114: except Exception
on_engine_error_mut(legal) == {Raised("Exception")}

on_engine_error(legal) == random_legal(legal)

\* lines 92-114: the moves decide_move can return, or the exception it raises
decide_move(engine, legal, reply) ==
  IF engine = "none" THEN random_legal(legal)
  ELSE IF reply.kind = "raise" THEN on_engine_error(legal)
  ELSE IF reply.kind = "text" /\ reply.text # ""
       THEN IF from_uci(reply.text).kind = "raise"
            THEN on_engine_error(legal)
            ELSE {from_uci(reply.text)}
  ELSE random_legal(legal)

NoReply == [kind |-> "none", text |-> ""]
NoOracle ==
  [pc |-> "idle", engine |-> "none", legal |-> {}, reply |-> NoReply,
   out |-> Raised("")]

OracleCalls ==
  {[pc |-> "call", engine |-> e, legal |-> l, reply |-> r, out |-> Raised("")] :
     e \in EngineStates, l \in LegalSets, r \in EngineReplies}

\* line 259: self.brain.decide_move(self.board) runs and returns or raises
BestMove ==
  /\ oracle.pc = "call"
  /\ \E r \in decide_move(oracle.engine, oracle.legal, oracle.reply) :
       oracle' = [oracle EXCEPT !.pc = "returned", !.out = r]
  /\ UNCHANGED <<mainVars, cm, cmOut, BOT_MEMORY, platformVars, sessionVars,
                 routerVars>>

\* line 259 is reached again, for another position
NextPosition ==
  /\ oracle.pc = "returned"
  /\ \E c \in OracleCalls : oracle' = c
  /\ UNCHANGED <<mainVars, cm, cmOut, BOT_MEMORY, platformVars, sessionVars,
                 routerVars>>

\* ------------------------------------------------- GameHandler (133-268)
Games == {"g1", "g2"}
Colors == {"white", "black"}
Endings == {"none", "checkmate", "draw"}
\* chess.Board after the moves of an update were pushed (lines 178-183)
Boards == [turn : Colors, ending : Endings]
StartBoard == [turn |-> "white", ending |-> "none"]
\* the state object of a gameState event, or the 'state' of a gameFull event
Updates == [board : Boards, wDraw : BOOLEAN, bDraw : BOOLEAN]
\* a gameFull event without 'state' is itself handed to handle_state_change:
\* it has no 'moves', 'wDraw' or 'bDraw' key (lines 173-174, 179, 221-223)
BareUpdate == [board |-> StartBoard, wDraw |-> FALSE, bDraw |-> FALSE]
NoUpdate == BareUpdate
\* the 'state' key of a gameFull event: present with an update, or missing
FullStates ==
  {[has |-> TRUE, state |-> u] : u \in Updates}
    \cup {[has |-> FALSE, state |-> BareUpdate]}
\* client.bots.make_move: accepted, rejected by the platform
\* (berserk ResponseError), or failed otherwise (berserk ApiError)
MoveReplies == {"ok", "ResponseError", "ApiError"}

\* chess.Board.is_game_over, line 186
is_game_over(board) == board.ending # "none"

\* chess.Board.result, line 187: the side to move is the side checkmated
result(board) ==
  CASE board.ending = "checkmate" ->
         IF board.turn = "white" THEN "0-1" ELSE "1-0"
    [] board.ending = "draw" -> "1/2-1/2"
    [] OTHER -> "*"

\* lines 153
assigned_color(white_id) ==
  IF Lower(white_id) = HardcodedId THEN "white" ELSE "black"

\* line 161
opponent_of(username) == IF username = None THEN DefaultOpponent ELSE username

\* lines 197-210
classify_mut(res, my_color) ==
  IF res = "1-0" THEN "win"
  ELSE IF res = "0-1" THEN "loss"
  ELSE "draw"
classify(res, my_color) ==
  IF res = "1-0" THEN (IF my_color = "white" THEN "win" ELSE "loss")
  ELSE IF res = "0-1" THEN (IF my_color = "black" THEN "win" ELSE "loss")
  ELSE "draw"

\* lines 200, 206
conquered_after(mem, outcome, opponent_name) ==
  IF outcome = "win" THEN mem.conquered_bots \cup {opponent_name}
  ELSE mem.conquered_bots

\* lines 220-224
opponent_offering_draw(my_color, state) ==
  \/ my_color = "black" /\ state.wDraw
  \/ my_color = "white" /\ state.bDraw

\* line 234
accepts_draw_mut(eval_cp) == eval_cp <= DrawThreshold
accepts_draw(eval_cp) == eval_cp < DrawThreshold

\* lines 236-240: the return of line 238 follows an accept_draw that returned
draw_accepted_mut(tries, acceptOk) == FALSE

draw_accepted(tries, acceptOk) == tries /\ acceptOk

\* line 192: hasattr(self, 'opponent_name')
has_opponent_name_mut(s) == TRUE

has_opponent_name(s) == s.opponent_name # None

\* run(), lines 141-174, has no try: an exception that leaves
\* handle_state_change ends the thread of that GameHandler, and no other
thread_dies_mut(sessions, g) ==
  [h \in DOMAIN sessions |-> [sessions[h] EXCEPT !.pc = "crashed"]]

thread_dies(sessions, g) == [sessions EXCEPT ![g].pc = "crashed"]

\* lines 257-268: what a make_move reply does to the thread; only
\* berserk.exceptions.ResponseError is caught
after_make_move(sessions, g, moveReply) ==
  IF moveReply = "ApiError" THEN thread_dies(sessions, g) ELSE sessions

\* lines 245-248
is_my_turn_mut(my_color, board) == my_color = "white"
is_my_turn(my_color, board) ==
  \/ my_color = "white" /\ board.turn = "white"
  \/ my_color = "black" /\ ~(board.turn = "white")

\* GameHandler.__init__ followed by start(): run() is at line 149.
\* seenOver is a history flag: some processed update was game over.
\* left counts the events the platform has yet to put on the game stream.
\* outcome is a history field: how the game whose end was last recorded went
\* for the bot.
NewSession(engine, events) ==
  [pc |-> "stream", my_color |-> None, opponent_name |-> None,
   board |-> StartBoard, engine |-> engine, left |-> events,
   seenOver |-> FALSE, outcome |-> None]

\* no GameHandler was constructed for the game
Absent == [NewSession("none", 0) EXCEPT !.pc = "absent"]
NoSessions == [g \in Games |-> Absent]
NoGhOut ==
  [game |-> None, kind |-> "none", update |-> NoUpdate, over |-> FALSE,
   wasOver |-> FALSE, replay |-> FALSE, evaluate |-> FALSE, eval_cp |-> 0,
   myTurn |-> "unset", bestMove |-> FALSE, cmds |-> {}, notified |-> {},
   writes |-> {}, accept |-> "none", reply |-> "none"]

\* the same game-over update is handed to the same session twice in a row
IsReplay(g, state) ==
  /\ ghOut.game = g /\ ghOut.kind \in {"gameState", "gameFull", "record"}
  /\ ghOut.over /\ ghOut.update = state

\* handle_state_change (lines 176-268) run by session record s of game g on
\* `state`; kind names the branch of run() that called it, notes what that
\* branch notified before the call
HandleStateChange(g, s, state, kind, notes) ==
  LET board == state.board
      base == [NoGhOut EXCEPT !.game = g, !.kind = kind, !.update = state,
                              !.wasOver = s.seenOver,
                              !.replay = IsReplay(g, state),
                              !.notified = notes]
      s1 == [s EXCEPT !.board = board, !.left = s.left - 1]
  IN
  IF is_game_over(board)
  THEN \* lines 186-215, up to the write of line 193
       /\ ghOut' = [base EXCEPT !.over = TRUE,
                                !.notified = notes \cup {"gameOver"},
                                !.writes = IF has_opponent_name(s)
                                           THEN {"last_opponent"} ELSE {}]
       /\ IF has_opponent_name(s)
          THEN /\ BOT_MEMORY' = [BOT_MEMORY EXCEPT
                                   !.last_opponent = s.opponent_name]
               /\ gh' = [gh EXCEPT ![g] =
                           [s1 EXCEPT !.pc = "record", !.seenOver = TRUE,
                                      !.outcome = classify(result(board),
                                                           s.my_color)]]
          ELSE /\ UNCHANGED BOT_MEMORY
               /\ gh' = [gh EXCEPT ![g] = [s1 EXCEPT !.seenOver = TRUE]]
  ELSE IF s.my_color = None
  THEN \* line 221: self.my_color raises AttributeError, the thread ends
       /\ ghOut' = base
       /\ gh' = thread_dies([gh EXCEPT ![g] = s1], g)
       /\ UNCHANGED BOT_MEMORY
  ELSE \* lines 217-268
       /\ UNCHANGED BOT_MEMORY
       /\ \E raw \in IF opponent_offering_draw(s.my_color, state)
                     THEN RawEvals ELSE {NoEval} :
            LET offered == opponent_offering_draw(s.my_color, state)
                eval_cp == get_evaluation(s.engine, raw)
                tries == offered /\ accepts_draw(eval_cp)
            IN \E acceptOk \in IF tries THEN BOOLEAN ELSE {FALSE} :
                 LET accepted == draw_accepted(tries, acceptOk)
                     moves == ~accepted /\ is_my_turn(s.my_color, board)
                                 /\ ~is_game_over(board)
                 IN \E moveReply \in IF moves THEN MoveReplies ELSE {"ok"} :
                      /\ ghOut' = [base EXCEPT
                                     !.evaluate = offered,
                                     !.eval_cp = IF offered THEN eval_cp ELSE 0,
                                     !.myTurn =
                                        IF accepted THEN "unset"
                                        ELSE IF is_my_turn(s.my_color, board)
                                             THEN "yes" ELSE "no",
                                     !.bestMove = moves,
                                     !.accept = IF ~tries THEN "none"
                                                ELSE IF acceptOk THEN "ok"
                                                ELSE "failed",
                                     !.reply = IF moves THEN moveReply
                                               ELSE "none",
                                     !.cmds = (IF tries THEN {"acceptDraw"} ELSE {})
                                                \cup (IF moves THEN {"makeMove"}
                                                               ELSE {})]
                      /\ gh' = IF moves
                                THEN after_make_move([gh EXCEPT ![g] = s1], g,
                                                     moveReply)
                                ELSE [gh EXCEPT ![g] = s1]

\* run(), lines 150-151: a gameState event
GH_GameState(g) ==
  /\ alive /\ gh[g].pc = "stream" /\ gh[g].left > 0
  /\ \E state \in Updates : HandleStateChange(g, gh[g], state, "gameState", {})
  /\ UNCHANGED <<oracle, mainVars, cm, cmOut, platformVars, routerVars>>

\* run(), lines 152-174: a gameFull event, with or without its 'state'; the
\* platform sends it once per game stream
GH_GameFull(g) ==
  /\ alive /\ gh[g].pc = "stream" /\ gh[g].left > 0
  /\ gh[g].my_color = None
  /\ \E white_id \in {HardcodedId, "opponent"},
        username \in BotNames \cup {None},
        full \in FullStates :
       LET s == [gh[g] EXCEPT !.my_color = assigned_color(white_id),
                              !.opponent_name = opponent_of(username)]
       IN HandleStateChange(g, s, full.state,
                            "gameFull", {"playingAs"})
  /\ UNCHANGED <<oracle, mainVars, cm, cmOut, platformVars, routerVars>>

\* run(), lines 149-152: an event of any other type is skipped
GH_OtherEvent(g) ==
  /\ alive /\ gh[g].pc = "stream" /\ gh[g].left > 0
  /\ gh' = [gh EXCEPT ![g].left = @ - 1]
  /\ ghOut' = [NoGhOut EXCEPT !.game = g, !.kind = "other",
                              !.wasOver = gh[g].seenOver]
  /\ UNCHANGED <<oracle, mainVars, cm, cmOut, BOT_MEMORY, platformVars, routerVars>>

\* lines 195-215: the rest of the memory update, after line 193
GH_RecordResult(g) ==
  /\ alive /\ gh[g].pc = "record"
  /\ LET s == gh[g]
         outcome == classify(result(s.board), s.my_color)
     IN /\ BOT_MEMORY' = [BOT_MEMORY EXCEPT
                            !.last_result = outcome,
                            !.conquered_bots =
                               conquered_after(BOT_MEMORY, outcome, s.opponent_name)]
        /\ ghOut' = [ghOut EXCEPT
                       !.game = g, !.kind = "record",
                       !.writes = {"last_result"} \cup
                                    (IF outcome = "win" THEN {"conquered_bots"} ELSE {})]
  /\ gh' = [gh EXCEPT ![g].pc = "stream"]
  /\ UNCHANGED <<oracle, mainVars, cm, cmOut, platformVars, routerVars>>

\* line 149: the game stream is exhausted and run() returns
GH_StreamEnds(g) ==
  /\ alive /\ gh[g].pc = "stream"
  /\ gh' = [gh EXCEPT ![g].pc = "closed"]
  /\ ghOut' = NoGhOut
  /\ UNCHANGED <<oracle, mainVars, cm, cmOut, BOT_MEMORY, platformVars, routerVars>>

GameHandlerStep ==
  \E g \in Games :
    \/ GH_GameState(g) \/ GH_GameFull(g) \/ GH_OtherEvent(g)
    \/ GH_RecordResult(g) \/ GH_StreamEnds(g)

\* ------------------------------------------- inbound event loop (397-423)
RouterIdle == [pc |-> "unstarted", started |-> {}]
NoRouterOut == [kind |-> "none", call |-> "none", arg |-> None, failed |-> FALSE]

Challengers == BotNames \cup {Me}
InboundEvents ==
  {[type |-> "challenge", who |-> n] : n \in Challengers}
    \cup {[type |-> "gameStart", who |-> g] : g \in Games}
    \cup {[type |-> "other", who |-> None]}

\* lines 134-139: GameHandler.__init__(self, game_id, **kwargs) takes one
\* positional argument besides self
GameHandlerInit(positional) == IF positional = 1 THEN "ok" ELSE "TypeError"

\* line 417: GameHandler(client, game_id)
HandlerCallArgs == 2

\* line 405
is_self_challenge_mut(challenger_name, my_username) == FALSE

is_self_challenge(challenger_name, my_username) ==
  Lower(challenger_name) = Lower(my_username)

\* lines 420-423: except Exception of the event loop, then the 5 s sleep
on_connection_lost_mut(r) == [r EXCEPT !.pc = "stopped"]

on_connection_lost(r) == [r EXCEPT !.pc = "backoff"]

\* line 400: client.bots.stream_incoming_events() is opened, or raises
R_Connect ==
  /\ alive /\ router.pc = "connect"
  /\ \E ok \in BOOLEAN :
       /\ router' = IF ok THEN [router EXCEPT !.pc = "stream"]
                          ELSE on_connection_lost(router)
       /\ routerOut' = [NoRouterOut EXCEPT !.kind = "connect", !.failed = ~ok]
  /\ UNCHANGED <<oracle, mainVars, cm, cmOut, BOT_MEMORY, platformVars, sessionVars, inbox>>

\* lines 401-413: a challenge event
R_Challenge ==
  /\ alive /\ router.pc = "stream"
  /\ inbox # <<>> /\ Head(inbox).type = "challenge"
  /\ LET challenger_name == Head(inbox).who
     IN IF is_self_challenge(challenger_name, me)
        THEN /\ routerOut' = [NoRouterOut EXCEPT !.kind = "challenge",
                                                 !.arg = challenger_name]
             /\ inbox' = Tail(inbox)
             /\ UNCHANGED ongoing
        ELSE \E ok \in IF ongoing < MaxOngoing THEN BOOLEAN ELSE {FALSE} :
               /\ routerOut' = [kind |-> "challenge", call |-> "acceptChallenge",
                                arg |-> challenger_name, failed |-> ~ok]
               /\ ongoing' = IF ok THEN ongoing + 1 ELSE ongoing
               /\ inbox' = Tail(inbox)
  /\ UNCHANGED <<oracle, mainVars, cm, cmOut, BOT_MEMORY, outstanding, sessionVars, router>>

\* lines 415-418, and 420-423 when the constructor raises
R_GameStart ==
  /\ alive /\ router.pc = "stream"
  /\ inbox # <<>> /\ Head(inbox).type = "gameStart"
  /\ LET game_id == Head(inbox).who
     IN IF GameHandlerInit(HandlerCallArgs) = "ok"
        THEN /\ \E e \in EngineStates :
                  gh' = [gh EXCEPT ![game_id] = NewSession(e, MaxEvents)]
             /\ router' = [router EXCEPT !.started = @ \cup {game_id}]
             /\ routerOut' = [NoRouterOut EXCEPT !.kind = "gameStart",
                                                 !.arg = game_id]
        ELSE /\ router' = on_connection_lost(router)
             /\ routerOut' = [NoRouterOut EXCEPT !.kind = "gameStart",
                                                 !.arg = game_id,
                                                 !.failed = TRUE]
             /\ UNCHANGED gh
  /\ inbox' = Tail(inbox)
  /\ UNCHANGED <<oracle, mainVars, cm, cmOut, BOT_MEMORY, platformVars, ghOut>>

\* lines 400-415: an event of any other type
R_OtherEvent ==
  /\ alive /\ router.pc = "stream"
  /\ inbox # <<>> /\ Head(inbox).type = "other"
  /\ inbox' = Tail(inbox)
  /\ routerOut' = [NoRouterOut EXCEPT !.kind = "other"]
  /\ UNCHANGED <<oracle, mainVars, cm, cmOut, BOT_MEMORY, platformVars, sessionVars, router>>

\* lines 400, 420-423: reading the stream raises (connection lost)
R_StreamError ==
  /\ alive /\ router.pc = "stream"
  /\ router' = on_connection_lost(router)
  /\ routerOut' = [NoRouterOut EXCEPT !.kind = "disconnect", !.failed = TRUE]
  /\ UNCHANGED <<oracle, mainVars, cm, cmOut, BOT_MEMORY, platformVars, sessionVars, inbox>>

\* line 423 returns, the while loop of line 397 opens the stream again
R_Reconnect ==
  /\ alive /\ router.pc = "backoff"
  /\ router' = [router EXCEPT !.pc = "connect"]
  /\ UNCHANGED <<oracle, mainVars, cm, cmOut, BOT_MEMORY, platformVars, sessionVars, inbox,
                 routerOut>>

\* the platform puts an event on the incoming-events stream
PlatformEvent ==
  /\ alive /\ Len(inbox) < MaxInbox
  /\ \E ev \in InboundEvents : inbox' = Append(inbox, ev)
  /\ UNCHANGED <<oracle, mainVars, cm, cmOut, BOT_MEMORY, platformVars, sessionVars,
                 router, routerOut>>

RouterStep ==
  \/ R_Connect \/ R_Challenge \/ R_GameStart \/ R_OtherEvent
  \/ R_StreamError \/ R_Reconnect

\* ------------------------------------------------------- the program: Spec
Init ==
  /\ token \in BOOLEAN
  /\ mainPc = "setup"
  /\ me = None
  /\ alive = TRUE
  /\ cm = CmIdle
  /\ cmOut = NoCall
  /\ BOT_MEMORY = EmptyMemory
  /\ ongoing \in 0..MaxOngoing
  /\ outstanding = 0
  /\ gh = NoSessions
  /\ ghOut = NoGhOut
  /\ router = RouterIdle
  /\ inbox = <<>>
  /\ routerOut = NoRouterOut
  /\ oracle = NoOracle

Next == MainStep \/ ChallengeManagerStep \/ PlatformStep

Spec == Init /\ [][Next]_vars

\* ---------------------------------- GameHandler threads alone: SpecSession
InitSession ==
  /\ token = TRUE
  /\ mainPc = "harness"
  /\ me = Me
  /\ alive = TRUE
  /\ cm = CmIdle
  /\ cmOut = NoCall
  /\ BOT_MEMORY = EmptyMemory
  /\ ongoing = 0
  /\ outstanding = 0
  /\ \E e \in EngineStates :
       gh = [g \in Games |-> IF g = "g1" THEN NewSession(e, MaxEvents) ELSE Absent]
  /\ ghOut = NoGhOut
  /\ router = RouterIdle
  /\ inbox = <<>>
  /\ routerOut = NoRouterOut
  /\ oracle = NoOracle

NextSession == GameHandlerStep

SpecSession == InitSession /\ [][NextSession]_vars

\* --------------------------------- ChallengeManager.run alone: SpecMatch
\* what GameHandler threads can leave in BOT_MEMORY: nothing is recorded
\* before an opponent is, and a win always adds to conquered_bots
MemoryValues ==
  {m \in [last_opponent : OpponentNames \cup {None},
          last_result : {None, "win", "loss", "draw"},
          conquered_bots : SUBSET OpponentNames] :
     /\ m.last_opponent = None => m.last_result = None /\ m.conquered_bots = {}
     /\ m.last_result = "win" => m.conquered_bots # {}}

InitMatch ==
  /\ token = TRUE
  /\ mainPc = "harness"
  /\ me = Me
  /\ alive = TRUE
  /\ cm = [CmIdle EXCEPT !.pc = "check"]
  /\ cmOut = NoCall
  /\ BOT_MEMORY \in MemoryValues
  /\ ongoing \in 0..MaxOngoing
  /\ outstanding = 0
  /\ gh = NoSessions
  /\ ghOut = NoGhOut
  /\ router = RouterIdle
  /\ inbox = <<>>
  /\ routerOut = NoRouterOut
  /\ oracle = NoOracle

NextMatch == ChallengeManagerStep \/ PlatformStep

SpecMatch == InitMatch /\ [][NextMatch]_vars

\* the ChallengeManager thread is scheduled again and again
SpecMatchFair == SpecMatch /\ WF_vars(ChallengeManagerStep)

\* -------------------------------- the loop of lines 397-423: SpecRouter
InitRouter ==
  /\ token = TRUE
  /\ mainPc = "router"
  /\ me = Me
  /\ alive = TRUE
  /\ cm = CmIdle
  /\ cmOut = NoCall
  /\ BOT_MEMORY = EmptyMemory
  /\ ongoing = 0
  /\ outstanding = 0
  /\ gh = NoSessions
  /\ ghOut = NoGhOut
  /\ router = [RouterIdle EXCEPT !.pc = "connect"]
  /\ inbox = <<>>
  /\ routerOut = NoRouterOut
  /\ oracle = NoOracle

NextRouter == RouterStep \/ PlatformEvent \/ GameFinished

SpecRouter == InitRouter /\ [][NextRouter]_vars

\* the main thread is scheduled again and again: the sleep of line 423 returns
SpecRouterFair == SpecRouter /\ WF_vars(R_Reconnect)

\* ------------------------------ decide_move alone (lines 92-114): SpecOracle
InitOracle ==
  /\ token = TRUE
  /\ mainPc = "harness"
  /\ me = Me
  /\ alive = TRUE
  /\ cm = CmIdle
  /\ cmOut = NoCall
  /\ BOT_MEMORY = EmptyMemory
  /\ ongoing = 0
  /\ outstanding = 0
  /\ gh = NoSessions
  /\ ghOut = NoGhOut
  /\ router = RouterIdle
  /\ inbox = <<>>
  /\ routerOut = NoRouterOut
  /\ oracle \in OracleCalls

NextOracle == BestMove \/ NextPosition

SpecOracle == InitOracle /\ [][NextOracle]_vars

\* ---- GameHandler threads, ChallengeManager and event loop together: SpecAgent
\* events the stream of the game in progress delivers
MaxGameEvents == 1

\* a GameHandler whose game against opponent_name ended on `board`, after
\* lines 186-215 ran; its thread still waits on the game stream
FinishedSession(my_color, opponent_name, board) ==
  [NewSession("none", 0) EXCEPT
     !.my_color = my_color, !.opponent_name = opponent_name, !.board = board,
     !.seenOver = TRUE, !.outcome = classify(result(board), my_color)]

\* a GameHandler after the gameFull event of its game (lines 152-174)
PlayingSession(my_color, opponent_name, events) ==
  [NewSession("none", events) EXCEPT
     !.my_color = my_color, !.opponent_name = opponent_name]

\* the board of a game White has lost
WhiteMated == [turn |-> "white", ending |-> "checkmate"]

\* BOT_MEMORY after that game was recorded as the first game of the process
MemoryAfter(s) ==
  [last_opponent |-> s.opponent_name, last_result |-> s.outcome,
   conquered_bots |-> conquered_after(EmptyMemory, s.outcome, s.opponent_name)]

\* game g1, with White against BotA, is lost, game g2 against BotB is being played, and
\* the incoming-events stream is about to announce g2 once more
InitAgent ==
  /\ token = TRUE
  /\ mainPc = "router"
  /\ me = Me
  /\ alive = TRUE
  /\ cm = [CmIdle EXCEPT !.pc = "check"]
  /\ cmOut = NoCall
  /\ ongoing = 0
  /\ outstanding = 0
  /\ gh = [g \in Games |->
             IF g = "g1" THEN FinishedSession("white", "BotA", WhiteMated)
             ELSE PlayingSession("black", "BotB", MaxGameEvents)]
  /\ BOT_MEMORY = MemoryAfter(FinishedSession("white", "BotA", WhiteMated))
  /\ ghOut = NoGhOut
  /\ router = [RouterIdle EXCEPT !.pc = "connect"]
  /\ inbox = <<[type |-> "gameStart", who |-> "g2"]>>
  /\ routerOut = NoRouterOut
  /\ oracle = NoOracle

\* the GameHandler steps while both game streams stay open
SessionStep ==
  \E g \in Games : GH_GameState(g) \/ GH_OtherEvent(g) \/ GH_RecordResult(g)

EventLoopStep == R_Connect \/ R_GameStart \/ R_StreamError \/ R_Reconnect

NextAgent == SessionStep \/ ChallengeManagerStep \/ EventLoopStep

SpecAgent == InitAgent /\ [][NextAgent]_vars

\* ===================================================================== claims

\* C1: whenever the ChallengeManager calls client.challenges.create, the
\* platform has no game of this account in progress at that moment.
C1_NoChallengeWhileBusy ==
  cmOut.call = "createChallenge" => cmOut.ongoing = 0

\* C2: for every gameStart event the event loop handles, a GameHandler for
\* that game id is constructed and started, and the loop keeps reading the
\* same stream.
C2_GameStartSpawnsSession ==
  routerOut.kind = "gameStart" =>
    /\ routerOut.arg \in router.started
    /\ gh[routerOut.arg].pc # "absent"
    /\ router.pc = "stream"

\* C3: with the token present, the process does not end before the inbound
\* event loop has started.
C3_RouterStartsBeforeExit ==
  (token /\ ~alive) => router.pc # "unstarted"

\* C4: once a session has processed a game-over update, it makes no further
\* oracle call and sends no further platform command, whatever follows.
C4_TerminalAbsorbing ==
  ghOut.wasOver =>
    /\ ~ghOut.evaluate /\ ~ghOut.bestMove
    /\ ghOut.cmds = {}

\* C5: a second delivery of the same game-over update to a session (one that
\* knows its opponent) writes nothing to BOT_MEMORY and sends no second
\* game-over notification.
C5_ReplayIsSilent ==
  (ghOut.replay /\ gh[ghOut.game].opponent_name # None) =>
    /\ ghOut.writes = {}
    /\ "gameOver" \notin ghOut.notified

\* C6 as stated: every game-over update a session processes has its result
\* recorded in BOT_MEMORY.
C6_EveryTerminalRecorded ==
  (ghOut.kind \in {"gameState", "gameFull"} /\ ghOut.over) =>
    /\ "last_opponent" \in ghOut.writes
    /\ gh[ghOut.game].pc = "record"

\* C6 as amended: when a session that has captured its identity records a
\* game-over position, last_result becomes exactly one of win, loss, draw:
\* 1-0 is a win as white and a loss as black, 0-1 the reverse, anything else
\* a draw; conquered_bots gains the opponent's name if the result is win and
\* is left alone otherwise.  A game-over update is left unrecorded only by a
\* session without identity.
C6_ResultRecorded ==
  [][\A g \in Games :
       /\ (gh[g].pc = "record" /\ gh'[g].pc # "record") =>
            LET res == result(gh[g].board)
                color == gh[g].my_color
                won == \/ res = "1-0" /\ color = "white"
                       \/ res = "0-1" /\ color = "black"
                lost == \/ res = "1-0" /\ color = "black"
                        \/ res = "0-1" /\ color = "white"
            IN /\ color \in Colors /\ gh[g].opponent_name # None
               /\ BOT_MEMORY'.last_result \in {"win", "loss", "draw"}
               /\ (BOT_MEMORY'.last_result = "win") = won
               /\ (BOT_MEMORY'.last_result = "loss") = lost
               /\ BOT_MEMORY'.conquered_bots =
                    IF BOT_MEMORY'.last_result = "win"
                    THEN BOT_MEMORY.conquered_bots \cup {gh[g].opponent_name}
                    ELSE BOT_MEMORY.conquered_bots
       /\ (ghOut'.game = g /\ ghOut'.kind \in {"gameState", "gameFull"}
             /\ ghOut'.over /\ gh'[g].opponent_name # None) =>
            gh'[g].pc = "record"]_vars

C6_Witness ==
  /\ ghOut.kind = "record"
  /\ BOT_MEMORY.last_result = "loss"
  /\ gh[ghOut.game].my_color = "black"
  /\ gh[ghOut.game].opponent_name \in BOT_MEMORY.conquered_bots

\* the side to move of the position the session last rebuilt is its colour
SideToMoveIsMine(g) == gh[g].board.turn = gh[g].my_color

\* C7 as stated: when it is not the agent's turn the session takes no action
\* at all for that update.
C7_NoActionOffTurn ==
  (ghOut.kind \in {"gameState", "gameFull"} /\ ~ghOut.over
     /\ ~SideToMoveIsMine(ghOut.game)) =>
    /\ ghOut.cmds = {}
    /\ ~ghOut.evaluate /\ ~ghOut.bestMove

\* C7 as amended: is_my_turn, where the handler computes it, is true iff the
\* side to move of the rebuilt position is the session's colour; decide_move
\* is called and make_move sent only when it is true and the position is not
\* game over; when it is not the agent's turn no decide_move call is made
\* and no move is sent (an opponent's draw offer is still evaluated, and
\* accepted, before the turn is looked at).
C7_MoveOnlyOnTurn ==
  ghOut.kind \in {"gameState", "gameFull"} =>
    /\ ghOut.myTurn = "yes" => SideToMoveIsMine(ghOut.game)
    /\ ghOut.myTurn = "no" => ~SideToMoveIsMine(ghOut.game)
    /\ ghOut.bestMove = ("makeMove" \in ghOut.cmds)
    /\ ghOut.bestMove => /\ ghOut.myTurn = "yes"
                         /\ SideToMoveIsMine(ghOut.game)
                         /\ ~ghOut.over
    /\ ~SideToMoveIsMine(ghOut.game) =>
         ~ghOut.bestMove /\ "makeMove" \notin ghOut.cmds

C7_Witness ==
  /\ ghOut.kind = "gameState" /\ ~ghOut.over
  /\ gh[ghOut.game].my_color = "black"
  /\ gh[ghOut.game].board.turn = "white"
  /\ "acceptDraw" \in ghOut.cmds
  /\ ~ghOut.bestMove

\* the opponent's draw flag is set in the update the session last processed
OpponentOffers(g) ==
  \/ gh[g].my_color = "white" /\ ghOut.update.bDraw
  \/ gh[g].my_color = "black" /\ ghOut.update.wDraw

\* C8: in a position that is not game over, with the opponent offering a
\* draw, accept_draw is attempted iff the evaluation is strictly below 100;
\* without an offer from the opponent there is no evaluation and no attempt.
C8_DrawThreshold ==
  (ghOut.kind \in {"gameState", "gameFull"} /\ ~ghOut.over
     /\ gh[ghOut.game].my_color # None) =>
    IF OpponentOffers(ghOut.game)
    THEN /\ ghOut.evaluate
         /\ ("acceptDraw" \in ghOut.cmds) = (ghOut.eval_cp < 100)
    ELSE /\ ~ghOut.evaluate
         /\ "acceptDraw" \notin ghOut.cmds

C8_Witness ==
  /\ ghOut.kind = "gameState" /\ ~ghOut.over
  /\ OpponentOffers(ghOut.game)
  /\ ghOut.evaluate /\ ghOut.eval_cp = 100
  /\ "acceptDraw" \notin ghOut.cmds

\* the revenge rule applies to what the ChallengeManager last chose from
RevengeApplies(online) ==
  /\ BOT_MEMORY.last_result = "loss"
  /\ BOT_MEMORY.last_opponent # None
  /\ BOT_MEMORY.last_opponent \in online

\* C9: with last_result = loss and last_opponent online, the target chosen
\* and then challenged is last_opponent, whoever else is online and whether
\* or not last_opponent is in conquered_bots.
C9_RevengePriority ==
  /\ (cm.pc = "create" /\ RevengeApplies(cm.valid_targets)) =>
       cm.target_name = BOT_MEMORY.last_opponent
  /\ (cmOut.call = "createChallenge" /\ RevengeApplies(cmOut.online)) =>
       cmOut.target = BOT_MEMORY.last_opponent

C9_Witness ==
  /\ cmOut.call = "createChallenge"
  /\ RevengeApplies(cmOut.online)
  /\ cmOut.target = BOT_MEMORY.last_opponent
  /\ BOT_MEMORY.last_opponent \in BOT_MEMORY.conquered_bots
  /\ Cardinality(cmOut.online) = 3

\* C10: when the revenge rule does not apply, the challenged target is an
\* online opponent neither conquered nor equal to last_opponent if there is
\* one; failing that an online opponent that is not conquered if there is
\* one; a conquered opponent only when every online opponent is conquered.
C10_FreshPriority ==
  (cmOut.call = "createChallenge" /\ ~RevengeApplies(cmOut.online)) =>
    LET unbeaten == cmOut.online \ BOT_MEMORY.conquered_bots
        preferred == unbeaten \ {BOT_MEMORY.last_opponent}
    IN /\ cmOut.target \in cmOut.online
       /\ preferred # {} => cmOut.target \in preferred
       /\ (preferred = {} /\ unbeaten # {}) => cmOut.target \in unbeaten
       /\ cmOut.target \in BOT_MEMORY.conquered_bots => unbeaten = {}

C10_Witness ==
  /\ cmOut.call = "createChallenge"
  /\ cmOut.online = {"BotA", "BotB", "BotC"}
  /\ BOT_MEMORY.conquered_bots = {"BotA"}
  /\ BOT_MEMORY.last_opponent = "BotC"
  /\ BOT_MEMORY.last_result = "draw"
  /\ cmOut.target = "BotB"

\* the pcs of a ChallengeManager thread that is inside its while loop
CmRunning == {"check", "seek", "revenge", "fresh", "create", "sleep"}

\* C11: an iteration that finds no valid target sleeps without a
\* createChallenge call; an iteration that finds some goes through the
\* selection to exactly one createChallenge call, whose target is one of the
\* valid targets of that iteration and never the agent itself.
C11_OneChallengePerIteration ==
  [][/\ (cm.pc = "seek" /\ cm'.pc = "sleep") => cmOut'.call = "none"
     /\ (cm.pc = "seek" /\ cm'.pc = "revenge") =>
          /\ cm'.valid_targets # {}
          /\ \A b \in cm'.valid_targets : b \in BotNames /\ b # Me
     /\ (cm.pc \in {"check", "seek", "revenge", "fresh"} /\ cm' # cm) =>
          cmOut'.call = "none"
     /\ (cm.pc = "revenge" /\ cm' # cm) =>
          cm'.pc = "fresh" /\ cm'.valid_targets = cm.valid_targets
     /\ (cm.pc = "fresh" /\ cm' # cm) =>
          cm'.pc = "create" /\ cm'.valid_targets = cm.valid_targets
     /\ (cm.pc = "create" /\ cm' # cm) =>
          /\ cm'.pc = "sleep"
          /\ cmOut'.call = "createChallenge"
          /\ cmOut'.target \in cm.valid_targets
          /\ cmOut'.target # Me
     /\ (cm.pc = "sleep" /\ cm' # cm) => cmOut' = cmOut]_vars

C11_Witness ==
  /\ cmOut.call = "createChallenge"
  /\ cm.pc = "sleep"
  /\ cmOut.online = {"BotA", "BotB"}
  /\ cmOut.target = "BotA"
  /\ BOT_MEMORY.conquered_bots = {"BotA", "BotB", DefaultOpponent}
  /\ BOT_MEMORY.last_opponent = "BotA"

\* C12: the ChallengeManager never leaves its loop: whichever platform call
\* of an iteration fails, the thread goes to its sleep, and from every sleep
\* it comes back to the top of the loop.
C12_LoopSurvivesErrors ==
  /\ [](cm.pc \in CmRunning)
  /\ [](cmOut.error => cm.pc \in {"sleep", "check"})
  /\ (cm.pc = "sleep" ~> cm.pc = "check")

C12_Witness ==
  /\ cmOut.error /\ cmOut.call = "none"
  /\ cm.pc = "check"

RouterRunning == {"connect", "stream", "backoff"}

\* C13: the event loop never stops: whatever raises inside it, and however
\* many times in a row, it ends in the 5 s sleep and the sleep is followed by
\* a new stream_incoming_events call.
C13_RouterRetriesForever ==
  /\ [](router.pc \in RouterRunning)
  /\ [](routerOut.failed /\ routerOut.kind # "challenge" =>
          router.pc \in {"backoff", "connect"})
  /\ (router.pc = "backoff" ~> router.pc = "connect")

\* the stream could not be opened, and after the sleep it is opened again
C13_Witness ==
  routerOut.kind = "connect" /\ routerOut.failed /\ router.pc = "connect"

\* C16: a challenge from the bot's own account is skipped without a call; any
\* other challenge gets one accept_challenge call for that challenge, and a
\* failure of the call leaves the loop reading the same stream.
C16_ChallengeHandling ==
  routerOut.kind = "challenge" =>
    /\ router.pc = "stream"
    /\ IF Lower(routerOut.arg) = Lower(me)
       THEN routerOut.call = "none" /\ ~routerOut.failed
       ELSE routerOut.call = "acceptChallenge"

C16_Witness ==
  /\ routerOut.kind = "challenge" /\ routerOut.call = "acceptChallenge"
  /\ routerOut.failed /\ router.pc = "stream" /\ routerOut.arg = "BotA"

\* C17: in an update where the opponent offers a draw and the evaluation is
\* below 100: after an accept_draw that returned, decide_move and make_move are
\* not called; after an accept_draw that raised, the turn check of lines
\* 245-249 is made and decide_move and make_move are called exactly when the
\* side to move is the bot's.
C17_DrawAcceptThenMove ==
  (ghOut.kind \in {"gameState", "gameFull"} /\ ghOut.evaluate
     /\ ghOut.eval_cp < DrawThreshold) =>
    /\ ghOut.accept \in {"ok", "failed"}
    /\ "acceptDraw" \in ghOut.cmds
    /\ ghOut.accept = "ok" =>
         /\ ~ghOut.bestMove /\ "makeMove" \notin ghOut.cmds
         /\ ghOut.reply = "none"
    /\ ghOut.accept = "failed" =>
         /\ ghOut.myTurn = (IF SideToMoveIsMine(ghOut.game) THEN "yes" ELSE "no")
         /\ ghOut.bestMove = SideToMoveIsMine(ghOut.game)
         /\ ("makeMove" \in ghOut.cmds) = SideToMoveIsMine(ghOut.game)

\* accept_draw raised on the bot's turn, and the move was made
C17_Witness ==
  /\ ghOut.kind = "gameState" /\ ghOut.evaluate /\ ghOut.eval_cp = DrawThreshold - 1
  /\ ghOut.accept = "failed" /\ ghOut.bestMove
  /\ ghOut.cmds = {"acceptDraw", "makeMove"}

\* C18: after a make_move call that was rejected or failed, the session is
\* still reading its game stream.
C18_SessionSurvivesMoveFailure ==
  (ghOut.kind \in {"gameState", "gameFull"} /\ ghOut.reply # "none") =>
    gh[ghOut.game].pc = "stream"

\* C20: a gameState update handled before any gameFull event sends no command,
\* asks the engine nothing and writes nothing to BOT_MEMORY.
C20_NoActionBeforeIdentity ==
  (ghOut.kind = "gameState" /\ gh[ghOut.game].my_color = None) =>
    /\ ghOut.cmds = {}
    /\ ~ghOut.evaluate /\ ~ghOut.bestMove
    /\ ghOut.writes = {}
    /\ gh[ghOut.game].pc # "record"
    /\ BOT_MEMORY = EmptyMemory

\* a game-over update reached a session that has no opponent_name yet
C20_Witness ==
  /\ ghOut.kind = "gameState" /\ gh[ghOut.game].my_color = None
  /\ ghOut.over /\ ghOut.notified = {"gameOver"}

\* the engine is missing, raised, or gave nothing that parses as a move
EngineUseless ==
  \/ oracle.engine = "none"
  \/ oracle.reply.kind \in {"raise", "none"}
  \/ oracle.reply.kind = "text" /\ oracle.reply.text \notin UciMoves

\* C15: in a position with a legal move, when the engine is missing, raises or
\* returns nothing that parses, decide_move returns a move of
\* board.legal_moves and raises nothing; with a single legal move it returns
\* that move.
C15_FallbackIsLegal ==
  (oracle.pc = "returned" /\ oracle.legal # {} /\ EngineUseless) =>
    /\ oracle.out.kind = "move"
    /\ oracle.out.move \in oracle.legal
    /\ \A m \in UciMoves : oracle.legal = {m} => oracle.out.move = m

\* one legal move and an engine that raises
C15_Witness ==
  /\ oracle.pc = "returned" /\ oracle.engine = "loaded"
  /\ oracle.reply.kind = "raise" /\ oracle.legal = {"g1f3"}
  /\ oracle.out = Returned("g1f3")

\* C19: a target chosen by the revenge search of lines 307-317 is the opponent
\* of a finished game that the bot lost.
C19_RevengeAfterLossToTarget ==
  (cm.pc = "fresh" /\ cm.target_name # None) =>
    \E g \in Games :
      /\ gh[g].seenOver
      /\ gh[g].opponent_name = cm.target_name
      /\ gh[g].outcome = "loss"

\* C14: a step in which a GameHandler thread dies leaves every other
\* GameHandler, the ChallengeManager and the event loop as they were; a failed
\* ChallengeManager call leaves the GameHandlers and the event loop as they
\* were and the ChallengeManager looping; an exception in the event loop
\* (the GameHandler constructor included) leaves the GameHandlers and the
\* ChallengeManager as they were and the event loop retrying.
C14_FailuresIsolated ==
  /\ [][/\ \A g \in Games :
            ((gh[g].pc # "crashed" /\ gh'[g].pc = "crashed") =>
               ((\A h \in Games \ {g} : gh'[h] = gh[h])
                  /\ cm' = cm /\ router' = router /\ alive'))
         /\ ((cmOut'.error /\ cm' # cm) =>
               (gh' = gh /\ router' = router /\ alive'
                  /\ cm'.pc \in CmRunning))
         /\ ((routerOut'.failed /\ router' # router) =>
               (gh' = gh /\ cm' = cm /\ alive'
                  /\ router'.pc \in RouterRunning))]_vars
  /\ [](cm.pc \in CmRunning /\ router.pc \in RouterRunning)

\* the thread of g2 died, a ChallengeManager call failed and the GameHandler
\* constructor raised, and all the rest is running
C14_Witness ==
  /\ gh["g2"].pc = "crashed" /\ gh["g1"].pc = "stream"
  /\ cmOut.error /\ cm.pc = "check"
  /\ routerOut.kind = "gameStart" /\ routerOut.failed /\ router.pc = "connect"

====
